---------------------------- MODULE Spec2Model ----------------------------
(***************************************************************************)
(* Transaction scheduling with conflicts: the list-scheduling simulator    *)
(* (src/utils.py, src/task.py), the schedule model and its order replay    *)
(* (src/solution.py), the variable decoder (src/variable_representation.py,*)
(* src/transformation.py) and the discretization of the QUBO encoder       *)
(* (src/qubo.py).                                                          *)
(*                                                                         *)
(* Times and lengths are natural numbers (the unit is arbitrary); the      *)
(* transaction and machine identifiers are 0-based as in the code.         *)
(***************************************************************************)
EXTENDS Integers, Sequences, FiniteSets, TLC

VARIABLES
    pc,              \* position of the running function
    task,            \* TransactionScheduleTask: num_machines, lengths, conflicts
    machines,        \* List[MachineSolution]: machine index -> its transactions
    solution_order,  \* the entries of the processing order consumed so far
    returned_order,  \* result of Solution.solution_to_solution_order
    active_vars,     \* the decoder's input: the active variable names
    representations, \* the parsed names (transformation.py, line 13)
    machine_var_map, \* machine id -> its group of parsed names
    popped,          \* machine id -> the parsed names popped so far, in order
    iteration,       \* iterations of the decoder's loop done so far
    time_step_length,   \* encoder argument, then the step in use (a rational)
    number_time_steps,  \* encoder argument
    discretization,     \* discrete_lengths, discrete_execution_length,
                        \* max_start_times (qubo.py, lines 59-63)
    hamiltonian         \* the terms A, B, C, D built so far

simulator_vars == <<solution_order, returned_order>>
decoder_vars ==
    <<active_vars, representations, machine_var_map, popped, iteration>>

encoder_vars ==
    <<time_step_length, number_time_steps, discretization, hamiltonian>>

vars == <<pc, task, machines, solution_order, returned_order, active_vars,
          representations, machine_var_map, popped, iteration,
          time_step_length, number_time_steps, discretization, hamiltonian>>

(***************************************************************************)
(* Bounds of the model.                                                    *)
(***************************************************************************)
MaxMachines == 3
NumTransactions == 2
WideTransactions == 3
MaxLength == 2
MaxOrder == 4
WideOrder == 5
NumDecodeTransactions == 2
MaxDecodeMachines == 2
MaxDecodeLength == 2
MaxStart == 1
MaxVars == 3
NumQuboTransactions == 2
MaxQuboMachines == 2
MaxQuboLength == 2
MaxTimeStep == 2
MaxTimeSteps == 2
FineTimeSteps == 41
MaxQubits == 6
MaxExactHorizon == 8

None == "None"

(***************************************************************************)
(* Task model (src/task.py).                                               *)
(***************************************************************************)
TransactionIds(t) == DOMAIN t.lengths

num_transactions(t) == Cardinality(DOMAIN t.lengths)

IsSymmetric(c, ids) == \A i \in ids : \A j \in ids : c[i][j] = c[j][i]

\* The instances the simulator is run on: every vector of lengths, every
\* symmetric 0/1 conflict matrix with a zero diagonal (no transaction
\* conflicts with itself), every machine count of the bounds.
ConflictMatrices(ids) ==
    { c \in [ids -> [ids -> {0, 1}]] :
        IsSymmetric(c, ids) /\ \A i \in ids : c[i][i] = 0 }

TasksOver(n) ==
    { [num_machines |-> m, lengths |-> l, conflicts |-> c] :
        m \in 1..MaxMachines,
        l \in [0..(n - 1) -> 0..MaxLength],
        c \in ConflictMatrices(0..(n - 1)) }

BoundedTasks == TasksOver(NumTransactions)

\* The same instances with more transactions.
WideTasks == TasksOver(WideTransactions)

\* The concrete scenario of the documentation: two machines, lengths
\* [3, 2, 4], no conflicts.
ScenarioTask ==
    [num_machines |-> 2,
     lengths |-> [i \in 0..2 |-> IF i = 0 THEN 3 ELSE IF i = 1 THEN 2 ELSE 4],
     conflicts |-> [i \in 0..2 |-> [j \in 0..2 |-> 0]]]

Tasks == BoundedTasks \cup {ScenarioTask}

(***************************************************************************)
(* Schedule model (src/solution.py).                                       *)
(***************************************************************************)
TransactionSolution(id, start_time, end_time, duration) ==
    [id |-> id, start_time |-> start_time, end_time |-> end_time,
     duration |-> duration]

\* MachineSolution([]) for _ in range(num_machines)
EmptyMachines(n) == [m \in 0..(n - 1) |-> <<>>]

\* MachineSolution.processing_time
processing_time(transactions) ==
    IF Len(transactions) = 0 THEN 0
    ELSE transactions[Len(transactions)].end_time

\* A selection that keeps the last of the tracks with the smallest key.
RECURSIVE min_scan_last(_, _, _)
min_scan_last(ms, k, best) ==
    IF k \notin DOMAIN ms THEN best
    ELSE min_scan_last(ms, k + 1,
                  IF processing_time(ms[k]) <= processing_time(ms[best])
                  THEN k ELSE best)

min_machine_last(ms) == min_scan_last(ms, 1, 0)

\* min(machines, key=lambda x: x.processing_time): Python's min keeps the
\* first element whose key is smallest (it replaces only on a strictly
\* smaller key).
RECURSIVE min_scan(_, _, _)
min_scan(ms, k, best) ==
    IF k \notin DOMAIN ms THEN best
    ELSE min_scan(ms, k + 1,
                  IF processing_time(ms[k]) < processing_time(ms[best])
                  THEN k ELSE best)

min_machine(ms) == min_scan(ms, 1, 0)

\* Solution.length: maximum completion time of all transactions.
EndTimes(ms) ==
    UNION { { ms[m][i].end_time : i \in 1..Len(ms[m]) } : m \in DOMAIN ms }

length(ms) == CHOOSE e \in EndTimes(ms) : \A f \in EndTimes(ms) : f <= e

(***************************************************************************)
(* List-scheduling simulator (src/utils.py).                               *)
(***************************************************************************)
\* A start that forgets the target track's last transaction.
initial_earliest_possible_zero(transactions) == 0

\* lines 26-29
initial_earliest_possible(transactions) ==
    IF Len(transactions) > 0 THEN transactions[Len(transactions)].end_time
    ELSE 0

\* lines 39-41: the test that postpones the transaction
postpones(omt, transaction_id, duration, conflicts, earliest_possible) ==
    /\ conflicts[omt.id][transaction_id] > 0
    /\ omt.start_time <= earliest_possible + duration
    /\ omt.end_time >= earliest_possible

Max(a, b) == IF a >= b THEN a ELSE b

Min(a, b) == IF a <= b THEN a ELSE b

\* lines 36-45: one pass over the transactions of one other machine
RECURSIVE scan_transactions(_, _, _, _, _, _)
scan_transactions(transactions, i, transaction_id, duration, conflicts, ep) ==
    IF i > Len(transactions) THEN ep
    ELSE scan_transactions(transactions, i + 1, transaction_id, duration,
            conflicts,
            IF postpones(transactions[i], transaction_id, duration,
                         conflicts, ep)
            THEN Max(transactions[i].end_time, ep) ELSE ep)

\* A pass that looks only at the machines listed after the target.
RECURSIVE scan_machines_after(_, _, _, _, _, _, _)
scan_machines_after(ms, k, machine, transaction_id, duration, conflicts, ep) ==
    IF k \notin DOMAIN ms THEN ep
    ELSE scan_machines_after(ms, k + 1, machine, transaction_id, duration,
            conflicts,
            IF k > machine
            THEN scan_transactions(ms[k], 1, transaction_id, duration,
                                   conflicts, ep)
            ELSE ep)

\* lines 34-45: one pass over the machines, in list order, skipping the target
RECURSIVE scan_machines(_, _, _, _, _, _, _)
scan_machines(ms, k, machine, transaction_id, duration, conflicts, ep) ==
    IF k \notin DOMAIN ms THEN ep
    ELSE scan_machines(ms, k + 1, machine, transaction_id, duration,
            conflicts,
            IF k # machine
            THEN scan_transactions(ms[k], 1, transaction_id, duration,
                                   conflicts, ep)
            ELSE ep)

\* A variant that appends nothing for a transaction of duration 0.
build_transaction_solution_skip(machine, ms, transaction_id, duration, conflicts) ==
    LET earliest_possible ==
            scan_machines(ms, 0, machine, transaction_id, duration, conflicts,
                          initial_earliest_possible(ms[machine]))
    IN  IF duration = 0 THEN ms
        ELSE [ms EXCEPT ![machine] =
                Append(@, TransactionSolution(transaction_id,
                              earliest_possible, earliest_possible + duration,
                              duration))]

\* The machines after build_transaction_solution(machine, machines, ...).
build_transaction_solution(machine, ms, transaction_id, duration, conflicts) ==
    LET earliest_possible ==
            scan_machines(ms, 0, machine, transaction_id, duration, conflicts,
                          initial_earliest_possible(ms[machine]))
    IN  [ms EXCEPT ![machine] =
            Append(@, TransactionSolution(transaction_id, earliest_possible,
                                          earliest_possible + duration,
                                          duration))]

(***************************************************************************)
(* Solution.solution_to_solution_order (src/solution.py, lines 101-128).   *)
(***************************************************************************)
\* A replay iteration that does not advance the consumption index.
replay_step_no_advance(original, st) ==
    LET machine_id == min_machine(st.machines)
        transaction == original[machine_id][st.index_tracker[machine_id] + 1]
    IN  [machines |-> [st.machines EXCEPT ![machine_id] =
                          Append(@, transaction)],
         index_tracker |-> st.index_tracker,
         solution_order |-> Append(st.solution_order, transaction.id)]

\* lines 117-127: one iteration of the replay loop
replay_step(original, st) ==
    LET machine_id == min_machine(st.machines)
        transaction == original[machine_id][st.index_tracker[machine_id] + 1]
    IN  [machines |-> [st.machines EXCEPT ![machine_id] =
                          Append(@, transaction)],
         index_tracker |-> [st.index_tracker EXCEPT ![machine_id] = @ + 1],
         solution_order |-> Append(st.solution_order, transaction.id)]

RECURSIVE replay(_, _, _)
replay(original, st, remaining) ==
    IF remaining = 0 THEN st
    ELSE replay(original, replay_step(original, st), remaining - 1)

RECURSIVE SumLen(_, _)
SumLen(ms, k) == IF k \notin DOMAIN ms THEN 0 ELSE Len(ms[k]) + SumLen(ms, k + 1)

solution_to_solution_order(ms) ==
    replay(ms,
           [machines |-> EmptyMachines(Cardinality(DOMAIN ms)),
            index_tracker |-> [m \in DOMAIN ms |-> 0],
            solution_order |-> <<>>],
           SumLen(ms, 0)).solution_order

(***************************************************************************)
(* TransactionScheduleTask.solution_order_to_solution (src/task.py).       *)
(***************************************************************************)
Init ==
    /\ pc = "loop"
    /\ task \in Tasks
    /\ machines = EmptyMachines(task.num_machines)
    /\ solution_order = <<>>
    /\ returned_order = None
    /\ active_vars = <<>>
    /\ representations = <<>>
    /\ machine_var_map = <<>>
    /\ popped = <<>>
    /\ iteration = 0
    /\ time_step_length = None
    /\ number_time_steps = None
    /\ discretization = None
    /\ hamiltonian = None

\* lines 93-104: the loop body for the next entry of the processing order,
\* for the orders of up to max_order entries
PlaceWithin(max_order, transaction_id) ==
    /\ pc = "loop"
    /\ Len(solution_order) < max_order
    /\ machines' = build_transaction_solution(min_machine(machines), machines,
                       transaction_id, task.lengths[transaction_id],
                       task.conflicts)
    /\ solution_order' = Append(solution_order, transaction_id)
    /\ UNCHANGED <<pc, task, returned_order, decoder_vars, encoder_vars>>

\* line 106, followed by the caller's solution_to_solution_order()
Return ==
    /\ pc = "loop"
    /\ pc' = "done"
    /\ returned_order' = solution_to_solution_order(machines)
    /\ UNCHANGED <<task, machines, solution_order, decoder_vars,
                   encoder_vars>>

Place(transaction_id) == PlaceWithin(MaxOrder, transaction_id)

Next ==
    \/ \E transaction_id \in TransactionIds(task) : Place(transaction_id)
    \/ Return

Spec == Init /\ [][Next]_vars

\* The same program on the instances with more transactions and on longer
\* orders.
InitWide ==
    /\ pc = "loop"
    /\ task \in WideTasks
    /\ machines = EmptyMachines(task.num_machines)
    /\ solution_order = <<>>
    /\ returned_order = None
    /\ active_vars = <<>>
    /\ representations = <<>>
    /\ machine_var_map = <<>>
    /\ popped = <<>>
    /\ iteration = 0
    /\ time_step_length = None
    /\ number_time_steps = None
    /\ discretization = None
    /\ hamiltonian = None

PlaceWide(transaction_id) == PlaceWithin(WideOrder, transaction_id)

NextWide ==
    \/ \E transaction_id \in TransactionIds(task) : PlaceWide(transaction_id)
    \/ Return

SpecWide == InitWide /\ [][NextWide]_vars

(***************************************************************************)
(* Variable names (src/variable_representation.py).  A name is a string,   *)
(* modelled as the sequence of its characters.                             *)
(***************************************************************************)
Digits == <<"0", "1", "2", "3", "4", "5", "6", "7", "8", "9">>

IsDigit(ch) == \E d \in 1..10 : Digits[d] = ch

DigitValue(ch) == (CHOOSE d \in 1..10 : Digits[d] = ch) - 1

\* str(n) for 0 <= n <= 9, as in the f-string of qubo.py line 71
Str(n) == <<Digits[n + 1]>>

\* f'{transaction}-{machine}-{time}'
VariableName(transaction, machine, time) ==
    Str(transaction) \o <<"-">> \o Str(machine) \o <<"-">> \o Str(time)

\* input.split('-'): the fields between the delimiters (always at least one)
RECURSIVE split_from(_, _, _, _)
split_from(input, i, field, fields) ==
    IF i > Len(input) THEN Append(fields, field)
    ELSE IF input[i] = "-"
         THEN split_from(input, i + 1, <<>>, Append(fields, field))
         ELSE split_from(input, i + 1, Append(field, input[i]), fields)

split(input) == split_from(input, 1, <<>>, <<>>)

\* int(field) succeeds on a non-empty string of decimal digits (no other
\* character of the model's alphabet is accepted).
IsInt(field) ==
    /\ Len(field) > 0
    /\ \A i \in 1..Len(field) : IsDigit(field[i])

RECURSIVE int_from(_, _, _)
int_from(field, i, acc) ==
    IF i > Len(field) THEN acc
    ELSE int_from(field, i + 1, 10 * acc + DigitValue(field[i]))

int(field) == int_from(field, 1, 0)

Raised(kind) == [error |-> kind]

IsRaised(r) == "error" \in DOMAIN r

\* VariableRepresentation.from_string, lines 31-36: the arguments are
\* evaluated left to right; a missing field raises IndexError and a field
\* that is no integer raises ValueError.
from_string(input) ==
    LET splits == split(input)
    IN  IF ~IsInt(splits[1]) THEN Raised("ValueError")
        ELSE IF Len(splits) < 2 THEN Raised("IndexError")
        ELSE IF ~IsInt(splits[2]) THEN Raised("ValueError")
        ELSE IF Len(splits) < 3 THEN Raised("IndexError")
        ELSE IF ~IsInt(splits[3]) THEN Raised("ValueError")
        ELSE [transaction_id |-> int(splits[1]) - 1,
              machine_id |-> int(splits[2]) - 1,
              start_time |-> int(splits[3])]

(***************************************************************************)
(* binary_variables_to_solution (src/transformation.py).                   *)
(***************************************************************************)
DecodeTasks ==
    { [num_machines |-> m, lengths |-> l, conflicts |-> c] :
        m \in 1..MaxDecodeMachines,
        l \in [0..(NumDecodeTransactions - 1) -> 1..MaxDecodeLength],
        c \in ConflictMatrices(0..(NumDecodeTransactions - 1)) }

\* The names the encoder produces for a task.
EncoderNames(t) ==
    { VariableName(i + 1, m + 1, s) :
        i \in TransactionIds(t), m \in 0..(t.num_machines - 1),
        s \in 0..MaxStart }

\* Names that are not of the form "<int>-<int>-<int>": too few fields, too
\* many fields, a field that is no integer, an empty field.
MalformedNames ==
    { <<"1", "-", "1">>,
      <<"1", "-", "1", "-", "0", "-", "1">>,
      <<"1", "-", "x", "-", "0">>,
      <<"1", "-", "1", "-">>,
      <<>> }

RECURSIVE SeqsUpTo(_, _)
SeqsUpTo(S, n) ==
    IF n = 0 THEN {<<>>}
    ELSE LET shorter == SeqsUpTo(S, n - 1)
         IN  shorter \cup { Append(q, x) : q \in shorter, x \in S }

\* lines 16-17: the parsed names of each machine, in input order
RECURSIVE group_from(_, _, _)
group_from(reps, i, map) ==
    IF i > Len(reps) THEN map
    ELSE group_from(reps, i + 1,
            [map EXCEPT ![reps[i].machine_id] = Append(@, reps[i])])

\* The defaultdict(list) of line 16, over the machine ids that can be read.
group(reps, num_machines) ==
    group_from(reps, 1, [m \in 0..(num_machines - 1) |-> <<>>])

\* list.pop(): the last element, and the list without it
PopLast(list) == SubSeq(list, 1, Len(list) - 1)

InitDecode ==
    /\ pc = "parse"
    /\ task \in DecodeTasks
    /\ active_vars \in SeqsUpTo(EncoderNames(task) \cup MalformedNames, MaxVars)
    /\ machines = EmptyMachines(task.num_machines)
    /\ representations = <<>>
    /\ machine_var_map = <<>>
    /\ popped = [m \in 0..(task.num_machines - 1) |-> <<>>]
    /\ iteration = 0
    /\ solution_order = <<>>
    /\ returned_order = None
    /\ time_step_length = None
    /\ number_time_steps = None
    /\ discretization = None
    /\ hamiltonian = None

\* line 13: every name is parsed; the first failure ends the call
ParseVars ==
    /\ pc = "parse"
    /\ IF \E i \in 1..Len(active_vars) : IsRaised(from_string(active_vars[i]))
       THEN /\ pc' = "raised"
            /\ UNCHANGED representations
       ELSE /\ pc' = "group"
            /\ representations' =
                   [i \in 1..Len(active_vars) |-> from_string(active_vars[i])]
    /\ UNCHANGED <<task, machines, active_vars, machine_var_map, popped,
                   iteration, simulator_vars, encoder_vars>>

\* lines 14-19: the groups; the sorted copies of lines 18-19 are built and
\* dropped, machine_var_map keeps the input order
GroupVars ==
    /\ pc = "group"
    /\ pc' = "loop"
    /\ machine_var_map' = group(representations, task.num_machines)
    /\ UNCHANGED <<task, machines, active_vars, representations, popped,
                   iteration, simulator_vars, encoder_vars>>

\* lines 21-35: one iteration of the loop
DecodeStep ==
    /\ pc = "loop"
    /\ iteration < num_transactions(task)
    /\ LET machine_id == min_machine(machines)
       IN  IF Len(machine_var_map[machine_id]) = 0
           THEN \* pop from an empty list: IndexError
                /\ pc' = "raised"
                /\ UNCHANGED <<machines, machine_var_map, popped, iteration>>
           ELSE LET transaction_var ==
                        machine_var_map[machine_id]
                            [Len(machine_var_map[machine_id])]
                    transaction_id == transaction_var.transaction_id
                IN  /\ machine_var_map' =
                           [machine_var_map EXCEPT ![machine_id] = PopLast(@)]
                    /\ popped' =
                           [popped EXCEPT ![machine_id] =
                               Append(@, transaction_var)]
                    /\ machines' = build_transaction_solution(machine_id,
                           machines, transaction_id,
                           task.lengths[transaction_id], task.conflicts)
                    /\ iteration' = iteration + 1
                    /\ UNCHANGED pc
    /\ UNCHANGED <<task, active_vars, representations, simulator_vars,
                   encoder_vars>>

\* line 37
DecodeReturn ==
    /\ pc = "loop"
    /\ iteration = num_transactions(task)
    /\ pc' = "returned"
    /\ UNCHANGED <<task, machines, decoder_vars, simulator_vars,
                   encoder_vars>>

NextDecode == ParseVars \/ GroupVars \/ DecodeStep \/ DecodeReturn

SpecDecode == InitDecode /\ [][NextDecode]_vars

(***************************************************************************)
(* Discretization and QUBO encoder (src/qubo.py).  Lengths are integers    *)
(* and a time step is a rational number num/den with den > 0, so that the  *)
(* quotients and the ceilings are exact.  The variables of the encoding    *)
(* are the triples <<t_idx, m_idx, start_time>> with the 1-based indices   *)
(* of the code.                                                            *)
(***************************************************************************)
Rational(n, d) == [num |-> n, den |-> d]

\* A value the code computes from a division by zero or from the cast of
\* an infinity; the model reaches it only where the code never reads it.
Undefined == [kind |-> "Undefined"]

\* An optional argument that is not given (Python's None), and one that is.
NotGiven == [kind |-> "None"]

Given(n) == [value |-> n]

\* An integer division that rounds down.
floor_div(a, b) == a \div b

\* np.ceil(a / b) for integers a and b > 0
ceil_div(a, b) == -((-a) \div b)

RECURSIVE SumOver(_, _)
SumOver(f, S) ==
    IF S = {} THEN 0
    ELSE LET x == CHOOSE y \in S : TRUE
         IN  f[x] + SumOver(f, S \ {x})

MaxOver(f) ==
    CHOOSE v \in { f[x] : x \in DOMAIN f } : \A x \in DOMAIN f : f[x] <= v

\* TransactionScheduleTask.estimate_execution_time (task.py, lines 70-76)
\* for num_machines >= 1: max(sum / num_machines, max), as a rational
estimate_execution_time(t, lengths) ==
    Rational(Max(SumOver(lengths, DOMAIN lengths),
                 t.num_machines * MaxOver(lengths)),
             t.num_machines)

\* qubo.py, line 56
DefaultTimeSteps == 10

\* lines 54-57: the time step in use, for num_machines >= 1
step_in_use(t, step, steps) ==
    IF step # NotGiven THEN step
    ELSE LET r == estimate_execution_time(t, t.lengths)
         IN  Rational(r.num,
                      r.den * (IF steps = NotGiven THEN DefaultTimeSteps
                               ELSE steps.value))

\* line 59: np.ceil(length / time_step_length).astype(int)
discrete_length(len, step) ==
    IF step.num > 0 THEN ceil_div(len * step.den, step.num)
    ELSE ceil_div(-(len * step.den), -step.num)

\* lines 59-63
discretize(t, step) ==
    LET discrete_lengths ==
            [i \in DOMAIN t.lengths |-> discrete_length(t.lengths[i], step)]
        r == estimate_execution_time(t, discrete_lengths)
        discrete_execution_length == ceil_div(r.num, r.den)
    IN  [discrete_lengths |-> discrete_lengths,
         discrete_execution_length |-> discrete_execution_length,
         max_start_times |->
            [i \in DOMAIN t.lengths |->
                discrete_execution_length - discrete_lengths[i]]]

\* lines 65-67
transaction_idxs(t) == 1..num_transactions(t)
machine_idxs(t) == 1..t.num_machines
start_times(d, idx) == 0..d.max_start_times[idx]

\* lines 74-80: per transaction, the variables of its one-hot expression
term_A(t, d) ==
    [t_idx \in transaction_idxs(t) |->
        { <<t_idx, m_idx, start_time>> :
            m_idx \in machine_idxs(t),
            start_time \in start_times(d, t_idx - 1) }]

\* A range that is one start time too wide at both ends.
invalid_start_times_wide(d, first, second, start_time) ==
    Max(0, start_time - d.discrete_lengths[second - 1]) ..
    Min(start_time + d.discrete_lengths[first - 1],
        d.max_start_times[second - 1])

\* lines 88-95 and 115-119: the start times of the second transaction that
\* are paired with start_time of the first
invalid_start_times(d, first, second, start_time) ==
    Max(0, start_time - d.discrete_lengths[second - 1] + 1) ..
    Min(start_time + d.discrete_lengths[first - 1] - 1,
        d.max_start_times[second - 1])

\* lines 86-101: the cross terms of one machine and one first transaction
term_B_of(t, d, m_idx, t_idx) ==
    UNION { UNION { { <<<<t_idx, m_idx, start_time>>,
                        <<remaining_t_idx, m_idx, invalid_start_time>>>> :
                        invalid_start_time \in
                            invalid_start_times(d, t_idx, remaining_t_idx,
                                                start_time) } :
                    remaining_t_idx \in (t_idx + 1)..num_transactions(t) } :
            start_time \in start_times(d, t_idx - 1) }

\* lines 83-101: one cross term per iteration of the innermost loop
term_B(t, d) ==
    UNION { term_B_of(t, d, m_idx, t_idx) :
            m_idx \in machine_idxs(t),
            t_idx \in 1..(num_transactions(t) - 1) }

\* lines 105-107: the pairs flagged 1, each sorted, without duplicates, 1-based
unique_conflicts_list(t) ==
    UNION { { <<Min(i, j) + 1, Max(i, j) + 1>> :
                j \in { k \in DOMAIN t.conflicts : t.conflicts[i][k] = 1 } } :
            i \in DOMAIN t.conflicts }

\* lines 111 and 115-118 index max_start_times and discrete_lengths with
\* the two transactions of a pair: an index past the lengths raises
\* IndexError. The first transaction is read once a machine exists, the
\* second one once a second machine exists.
term_C_raises(t) ==
    \E pair \in unique_conflicts_list(t) :
        \/ t.num_machines >= 1 /\ pair[1] > num_transactions(t)
        \/ t.num_machines >= 2 /\ pair[2] > num_transactions(t)

\* lines 110-129: the cross terms of one pair and one machine
term_C_of(t, d, pair, m_idx) ==
    UNION { UNION { { <<<<pair[1], m_idx, start_time>>,
                        <<pair[2], remaining_m_idx, invalid_start_time>>>> :
                        invalid_start_time \in
                            invalid_start_times(d, pair[1], pair[2],
                                                start_time) } :
                    remaining_m_idx \in machine_idxs(t) \ {m_idx} } :
            start_time \in start_times(d, pair[1] - 1) }

\* lines 104-129: one cross term per iteration of the innermost loop
term_C(t, d) ==
    UNION { term_C_of(t, d, pair, m_idx) :
            pair \in unique_conflicts_list(t), m_idx \in machine_idxs(t) }

\* line 138: the exponent of w2 for a variable
exponent(d, var) == var[3] + d.discrete_lengths[var[1] - 1] - 1

AllVariables(t, d) == UNION { term_A(t, d)[t_idx] : t_idx \in transaction_idxs(t) }

\* lines 137-138: an integer power with a negative numpy integer exponent
\* raises ValueError
term_D_raises(t, d) ==
    /\ AllVariables(t, d) # {}
    /\ \/ d.discrete_execution_length < 0
       \/ \E var \in AllVariables(t, d) : exponent(d, var) < 0

\* The powers of lines 137-138 are powers of numpy's 64-bit signed
\* integers (a Python int raised to an np.int64): the result is the power
\* modulo 2^64.  A 64-bit integer is the sequence of its four 16-bit
\* limbs, the lowest first, in two's complement.
LimbBase == 2^16

int64_one == <<1, 0, 0, 0>>

int64_zero == <<0, 0, 0, 0>>

\* x * k modulo 2^64, for a small k >= 0
int64_times(x, k) ==
    LET p1 == x[1] * k
        p2 == x[2] * k + (p1 \div LimbBase)
        p3 == x[3] * k + (p2 \div LimbBase)
        p4 == x[4] * k + (p3 \div LimbBase)
    IN  <<p1 % LimbBase, p2 % LimbBase, p3 % LimbBase, p4 % LimbBase>>

\* base ** e for e >= 0, modulo 2^64; four factors at a time where the
\* exponent allows it
RECURSIVE int64_power(_, _)
int64_power(base, e) ==
    IF e = 0 THEN int64_one
    ELSE IF e >= 4
         THEN int64_times(int64_power(base, e - 4), base * base * base * base)
         ELSE int64_times(int64_power(base, e - 1), base)

int64_negative(x) == x[4] >= LimbBase \div 2

\* x < y for two 64-bit signed integers
int64_less(x, y) ==
    LET kx == <<(x[4] + LimbBase \div 2) % LimbBase, x[3], x[2], x[1]>>
        ky == <<(y[4] + LimbBase \div 2) % LimbBase, y[3], y[2], y[1]>>
    IN  \E i \in 1..4 :
            /\ kx[i] < ky[i]
            /\ \A j \in 1..(i - 1) : kx[j] = ky[j]

\* lines 132-140: per variable, the two powers w2 and w1 of line 139
term_D(t, d) ==
    [var \in AllVariables(t, d) |->
        [w2 |-> int64_power(t.num_machines + 1, exponent(d, var)),
         w1 |-> int64_power(t.num_machines + 1,
                            d.discrete_execution_length)]]

\* The instances the encoder is called with, the malformed ones included:
\* no machine, a negative length, an asymmetric conflict matrix, a conflict
\* matrix of another dimension than the lengths.
SquareMatrices(n) == [0..(n - 1) -> [0..(n - 1) -> {0, 1}]]

EncoderConflicts ==
    SquareMatrices(NumQuboTransactions) \cup
    { c \in SquareMatrices(NumQuboTransactions + 1) :
        IsSymmetric(c, 0..NumQuboTransactions) }

EncoderTasks ==
    [num_machines : 0..MaxQuboMachines,
     lengths : [0..(NumQuboTransactions - 1) -> (-1)..MaxQuboLength],
     conflicts : EncoderConflicts]

TimeStepLengths ==
    { Rational(n, d) : n \in 1..MaxTimeStep, d \in 1..MaxTimeStep }

\* With no explicit step, a task whose estimated execution time is 0 makes
\* line 59 divide by zero; such calls are left out.
StepIsDefined(t, step) ==
    (step = NotGiven /\ t.num_machines >= 1) =>
        estimate_execution_time(t, t.lengths).num # 0

InitEncode ==
    /\ pc = "entry"
    /\ task \in EncoderTasks
    /\ time_step_length \in TimeStepLengths \cup {NotGiven}
    /\ number_time_steps \in { Given(n) : n \in 1..MaxTimeSteps } \cup {NotGiven}
    /\ StepIsDefined(task, time_step_length)
    /\ discretization = None
    /\ hamiltonian = None
    /\ machines = <<>>
    /\ solution_order = <<>>
    /\ returned_order = None
    /\ active_vars = <<>>
    /\ representations = <<>>
    /\ machine_var_map = <<>>
    /\ popped = <<>>
    /\ iteration = 0

encoder_idle == <<machines, simulator_vars, decoder_vars>>

\* lines 54-63. Without a machine the estimates divide by zero: the values
\* that depend on them are never read, since every loop over the machines
\* is empty.
Discretize ==
    /\ pc = "entry"
    /\ pc' = "A"
    /\ IF task.num_machines >= 1
       THEN /\ time_step_length' =
                   step_in_use(task, time_step_length, number_time_steps)
            /\ discretization' = discretize(task, time_step_length')
       ELSE /\ time_step_length' =
                   IF time_step_length # NotGiven THEN time_step_length
                   ELSE Undefined
            /\ discretization' =
                   [discrete_lengths |->
                        IF time_step_length # NotGiven
                        THEN [i \in DOMAIN task.lengths |->
                                 discrete_length(task.lengths[i],
                                                 time_step_length)]
                        ELSE Undefined,
                    discrete_execution_length |-> Undefined,
                    max_start_times |-> Undefined]
    /\ UNCHANGED <<task, number_time_steps, hamiltonian, encoder_idle>>

\* lines 74-80
BuildA ==
    /\ pc = "A"
    /\ pc' = "B"
    /\ hamiltonian' = [A |-> IF task.num_machines >= 1
                             THEN term_A(task, discretization)
                             ELSE [t_idx \in transaction_idxs(task) |-> {}]]
    /\ UNCHANGED <<task, time_step_length, number_time_steps, discretization,
                   encoder_idle>>

\* lines 83-101
BuildB ==
    /\ pc = "B"
    /\ pc' = "C"
    /\ hamiltonian' = [A |-> hamiltonian.A,
                       B |-> IF task.num_machines >= 1
                             THEN term_B(task, discretization) ELSE {}]
    /\ UNCHANGED <<task, time_step_length, number_time_steps, discretization,
                   encoder_idle>>

\* lines 104-129
BuildC ==
    /\ pc = "C"
    /\ IF term_C_raises(task)
       THEN /\ pc' = "raised"
            /\ UNCHANGED hamiltonian
       ELSE /\ pc' = "D"
            /\ hamiltonian' = [A |-> hamiltonian.A, B |-> hamiltonian.B,
                               C |-> IF task.num_machines >= 1
                                     THEN term_C(task, discretization)
                                     ELSE {}]
    /\ UNCHANGED <<task, time_step_length, number_time_steps, discretization,
                   encoder_idle>>

\* lines 132-140
BuildD ==
    /\ pc = "D"
    /\ IF task.num_machines >= 1 /\ term_D_raises(task, discretization)
       THEN /\ pc' = "raised"
            /\ UNCHANGED hamiltonian
       ELSE /\ pc' = "compile"
            /\ hamiltonian' = [A |-> hamiltonian.A, B |-> hamiltonian.B,
                               C |-> hamiltonian.C,
                               D |-> IF task.num_machines >= 1
                                     THEN term_D(task, discretization)
                                     ELSE <<>>]
    /\ UNCHANGED <<task, time_step_length, number_time_steps, discretization,
                   encoder_idle>>

\* lines 142-144: the sum of the terms is a pyqubo expression only if some
\* variable was added to it; without one it is a Python number, which has
\* no compile() (AttributeError).
Compile ==
    /\ pc = "compile"
    /\ pc' = IF \A t_idx \in DOMAIN hamiltonian.A : hamiltonian.A[t_idx] = {}
             THEN "raised" ELSE "returned"
    /\ UNCHANGED <<task, encoder_vars, encoder_idle>>

NextEncode == Discretize \/ BuildA \/ BuildB \/ BuildC \/ BuildD \/ Compile

SpecEncode == InitEncode /\ [][NextEncode]_vars

\* The discretisation (lines 54-63) and the terms A, B and D read the
\* machine count, the lengths and the two optional arguments, never the
\* conflicts: the instances without a conflict cover their inputs.
DiscretizeTasks ==
    [num_machines : 0..MaxQuboMachines,
     lengths : [0..(NumQuboTransactions - 1) -> (-1)..MaxQuboLength],
     conflicts : { [i \in 0..(NumQuboTransactions - 1) |->
                      [j \in 0..(NumQuboTransactions - 1) |-> 0]] }]

InitDiscretize ==
    /\ pc = "entry"
    /\ task \in DiscretizeTasks
    /\ time_step_length \in TimeStepLengths \cup {NotGiven}
    /\ number_time_steps \in { Given(n) : n \in 1..MaxTimeSteps } \cup {NotGiven}
    /\ StepIsDefined(task, time_step_length)
    /\ discretization = None
    /\ hamiltonian = None
    /\ machines = <<>>
    /\ solution_order = <<>>
    /\ returned_order = None
    /\ active_vars = <<>>
    /\ representations = <<>>
    /\ machine_var_map = <<>>
    /\ popped = <<>>
    /\ iteration = 0

SpecDiscretize == InitDiscretize /\ [][NextEncode]_vars

\* The encoder on the well-formed instances, with the coarse
\* discretisations of the bounds and a fine one.
FineTasks ==
    [num_machines : 1..MaxQuboMachines,
     lengths : [0..(NumQuboTransactions - 1) -> 0..MaxQuboLength],
     conflicts : { c \in SquareMatrices(NumQuboTransactions) :
                     IsSymmetric(c, 0..(NumQuboTransactions - 1)) }]

InitFine ==
    /\ pc = "entry"
    /\ task \in FineTasks
    /\ time_step_length \in TimeStepLengths \cup {NotGiven}
    /\ number_time_steps \in
          { Given(n) : n \in (1..MaxTimeSteps) \cup {FineTimeSteps} }
             \cup {NotGiven}
    /\ StepIsDefined(task, time_step_length)
    /\ discretization = None
    /\ hamiltonian = None
    /\ machines = <<>>
    /\ solution_order = <<>>
    /\ returned_order = None
    /\ active_vars = <<>>
    /\ representations = <<>>
    /\ machine_var_map = <<>>
    /\ popped = <<>>
    /\ iteration = 0

SpecFine == InitFine /\ [][NextEncode]_vars

(***************************************************************************)
(* Properties of the simulator and of the schedule model.                  *)
(***************************************************************************)
\* The half-open windows [s1, e1) and [s2, e2) have a point in common.
WindowsOverlap(s1, e1, s2, e2) == Max(s1, s2) < Min(e1, e2)

Overlap(a, b) ==
    WindowsOverlap(a.start_time, a.end_time, b.start_time, b.end_time)

\* The places <<machine, index>> of the timed transactions of a schedule.
Placements(ms) ==
    UNION { { <<m, i>> : i \in 1..Len(ms[m]) } : m \in DOMAIN ms }

At(ms, p) == ms[p[1]][p[2]]

\* C1: no two timed transactions that conflict have overlapping windows,
\* whichever tracks they are on.
C1_ConflictInvariant ==
    \A p \in Placements(machines) : \A q \in Placements(machines) :
        (p # q /\ task.conflicts[At(machines, p).id][At(machines, q).id] > 0)
            => ~Overlap(At(machines, p), At(machines, q))

\* C2: on every track the timed transactions are in non-decreasing
\* start-time order, each starts at or after the end of the one before it,
\* and no two of them have overlapping windows.
C2_TrackExclusivity ==
    \A m \in DOMAIN machines :
        /\ \A i \in 1..(Len(machines[m]) - 1) :
              /\ machines[m][i].start_time <= machines[m][i + 1].start_time
              /\ machines[m][i].end_time <= machines[m][i + 1].start_time
        /\ \A i \in 1..Len(machines[m]) : \A j \in 1..Len(machines[m]) :
              i # j => ~Overlap(machines[m][i], machines[m][j])

C2_Witness ==
    \E m \in DOMAIN machines :
        /\ task.num_machines >= 2
        /\ Len(machines[m]) >= 2
        /\ \A i \in 1..Len(machines[m]) : machines[m][i].duration > 0
        /\ machines[m][1].end_time < machines[m][2].start_time

IsPermutation(order, ids) ==
    /\ Len(order) = Cardinality(ids)
    /\ \A i \in ids : \E k \in 1..Len(order) : order[k] = i

DistinctNonZeroDurations(t) ==
    /\ \A i \in TransactionIds(t) : t.lengths[i] > 0
    /\ \A i \in TransactionIds(t) : \A j \in TransactionIds(t) :
          i # j => t.lengths[i] # t.lengths[j]

\* C3: for a permutation of the transaction identifiers of a task whose
\* durations are distinct and non-zero, the order reconstructed from the
\* schedule is the order the schedule was built from (checked whether or
\* not the track selection met ties).
C3_RoundTrip ==
    (/\ pc = "done"
     /\ IsPermutation(solution_order, TransactionIds(task))
     /\ DistinctNonZeroDurations(task))
        => returned_order = solution_order

C3_Witness ==
    /\ pc = "done"
    /\ task.num_machines = 2
    /\ task \in BoundedTasks
    /\ IsPermutation(solution_order, TransactionIds(task))
    /\ DistinctNonZeroDurations(task)
    /\ \E p \in Placements(machines) :
          /\ p[2] = 1
          /\ At(machines, p).start_time > 0
    /\ returned_order = solution_order

\* The track a step appended a transaction to, if it appended one.
Grew(m) == Len(machines'[m]) = Len(machines[m]) + 1

\* C4: every step appends the next transaction to the track with the
\* smallest processing time, the lowest-indexed one among equals; and in
\* the documented scenario (2 machines, lengths [3, 2, 4], no conflicts,
\* order [0, 1, 2]) transaction 0 is on track 0 at [0, 3), 1 on track 1 at
\* [0, 2), 2 on track 1 at [2, 6), and the makespan is 6.
C4_SelectsLowestMinimalTrack ==
    /\ [][solution_order' # solution_order =>
            \E m \in DOMAIN machines :
                /\ Grew(m)
                /\ machines'[m][Len(machines'[m])].id =
                       solution_order'[Len(solution_order')]
                /\ \A k \in DOMAIN machines :
                      /\ k # m => machines'[k] = machines[k]
                      /\ processing_time(machines[k]) >=
                             processing_time(machines[m])
                      /\ k < m => processing_time(machines[k]) >
                                      processing_time(machines[m])]_vars
    /\ []((task = ScenarioTask /\ solution_order = <<0, 1, 2>>) =>
            /\ machines[0] = <<TransactionSolution(0, 0, 3, 3)>>
            /\ machines[1] = <<TransactionSolution(1, 0, 2, 2),
                               TransactionSolution(2, 2, 6, 4)>>
            /\ length(machines) = 6)

C4_Witness ==
    /\ task = ScenarioTask
    /\ solution_order = <<0, 1, 2>>
    /\ Len(machines[0]) = 1
    /\ Len(machines[1]) = 2
    /\ length(machines) = 6

\* A start time t of the new transaction on the target track is feasible
\* when [t, t + duration) overlaps the window of no conflicting transaction
\* placed on another track.
Feasible(ms, machine, transaction_id, duration, conflicts, t) ==
    \A p \in Placements(ms) :
        (p[1] # machine /\ conflicts[At(ms, p).id][transaction_id] > 0)
            => ~WindowsOverlap(t, t + duration,
                               At(ms, p).start_time, At(ms, p).end_time)

Horizon(ms) == IF EndTimes(ms) = {} THEN 0 ELSE length(ms)

EarliestFeasible(ms, machine, transaction_id, duration, conflicts) ==
    CHOOSE t \in processing_time(ms[machine])..
                    Max(Horizon(ms), processing_time(ms[machine])) :
        /\ Feasible(ms, machine, transaction_id, duration, conflicts, t)
        /\ \A u \in processing_time(ms[machine])..(t - 1) :
              ~Feasible(ms, machine, transaction_id, duration, conflicts, u)

\* C5: the transaction is placed at the earliest feasible slot of its
\* target track: the smallest t >= the track's processing time whose window
\* [t, t + duration) overlaps no conflicting window on another track.
C5_EarliestFeasibleSlot ==
    [][\A m \in DOMAIN machines :
          (Grew(m) /\ \A i \in TransactionIds(task) : task.lengths[i] > 0) =>
              machines'[m][Len(machines'[m])].start_time =
                  EarliestFeasible(machines, m,
                      machines'[m][Len(machines'[m])].id,
                      machines'[m][Len(machines'[m])].duration,
                      task.conflicts)]_vars

(***************************************************************************)
(* Properties of the decoder.                                              *)
(***************************************************************************)
\* C6: on every machine the parsed names are popped in non-decreasing
\* start-time order, whatever the order of the active variable names.
C6_ConsumedInStartOrder ==
    \A m \in DOMAIN popped :
        \A i \in 1..(Len(popped[m]) - 1) :
            popped[m][i].start_time <= popped[m][i + 1].start_time

\* The number of entries of a sequence that satisfy a test.
CountIn(seq, Test(_)) == Cardinality({ i \in 1..Len(seq) : Test(seq[i]) })

\* C7: a returned schedule holds every transaction of the task exactly
\* once, on the machine its variable names, and is returned only for an
\* input with exactly one variable per transaction.
C7_NoUnderOrOverScheduling ==
    pc = "returned" =>
        \A t \in TransactionIds(task) :
            /\ Cardinality({ p \in Placements(machines) :
                                At(machines, p).id = t }) = 1
            /\ LET IsT(rep) == rep.transaction_id = t
               IN  CountIn(representations, IsT) = 1
            /\ \A p \in Placements(machines) :
                  At(machines, p).id = t =>
                      \E i \in 1..Len(representations) :
                          /\ representations[i].transaction_id = t
                          /\ representations[i].machine_id = p[1]

\* The name consists of exactly three '-'-delimited integer fields: it
\* has two delimiters, every other character is a digit, and there is a
\* digit before, between and after the delimiters.
ThreeIntegerFields(name) ==
    LET dashes == { i \in 1..Len(name) : name[i] = "-" }
    IN  /\ Cardinality(dashes) = 2
        /\ \A i \in (1..Len(name)) \ dashes : IsDigit(name[i])
        /\ 1 \notin dashes
        /\ Len(name) \notin dashes
        /\ \A i \in dashes : (i + 1) \notin dashes

\* C9: a list that contains a name not made of exactly three
\* '-'-delimited integer fields makes binary_variables_to_solution raise
\* at the parse: the name is parsed into no triple, nothing is grouped or
\* placed, no schedule is returned.
C9_MalformedNameRaises ==
    (\E i \in 1..Len(active_vars) : ~ThreeIntegerFields(active_vars[i]))
        => /\ pc \in {"parse", "raised"}
           /\ representations = <<>>

(***************************************************************************)
(* Properties of the encoder.                                              *)
(***************************************************************************)
\* The instance breaks the invariant of the task model: no machine, a
\* negative length, an asymmetric conflict matrix, or a conflict matrix
\* whose dimension is not the number of lengths.
Malformed(t) ==
    \/ t.num_machines < 1
    \/ \E i \in DOMAIN t.lengths : t.lengths[i] < 0
    \/ ~IsSymmetric(t.conflicts, DOMAIN t.conflicts)
    \/ DOMAIN t.conflicts # DOMAIN t.lengths

\* C8: a malformed instance is rejected with an error and no QUBO is
\* returned for it.
C8_MalformedInstanceRejected ==
    Malformed(task) => pc # "returned"

C11_EveryEntryPlaced ==
    /\ pc \in {"loop", "done"}
    /\ \A t \in TransactionIds(task) :
          Cardinality({ p \in Placements(machines) :
                          At(machines, p).id = t }) =
          Cardinality({ i \in 1..Len(solution_order) :
                          solution_order[i] = t })
    /\ \A p \in Placements(machines) :
          /\ At(machines, p).id \in TransactionIds(task)
          /\ At(machines, p).duration = task.lengths[At(machines, p).id]
          /\ At(machines, p).end_time =
                 At(machines, p).start_time + At(machines, p).duration

\* A returned schedule of an order that names a transaction twice, holds a
\* transaction of duration 0 and one that was postponed.
C11_Witness ==
    /\ pc = "done"
    /\ Len(solution_order) >= 3
    /\ \E i \in 1..Len(solution_order) : \E j \in 1..Len(solution_order) :
          i # j /\ solution_order[i] = solution_order[j]
    /\ \E p \in Placements(machines) : At(machines, p).duration = 0
    /\ \E p \in Placements(machines) :
          p[2] = 1 /\ At(machines, p).start_time > 0

\* C15: with two machines no two conflicting timed transactions have
\* overlapping [start, end) windows, for every symmetric conflict matrix,
\* every vector of non-negative lengths and every processing order.
C15_TwoTracksConflictFree ==
    task.num_machines = 2 =>
        \A p \in Placements(machines) : \A q \in Placements(machines) :
            LET a == At(machines, p)
                b == At(machines, q)
            IN  (p[1] # q[1] /\ task.conflicts[a.id][b.id] > 0) =>
                    ~WindowsOverlap(a.start_time, a.end_time,
                                    b.start_time, b.end_time)

\* Two machines; a transaction was postponed to the end of the second of
\* two conflicting transactions of the other track, both of them of a
\* positive duration.
C15_Witness ==
    /\ task.num_machines = 2
    /\ \E q \in Placements(machines) :
       \E p1 \in Placements(machines) : \E p2 \in Placements(machines) :
          LET b == At(machines, q)
              a1 == At(machines, p1)
              a2 == At(machines, p2)
          IN  /\ p1[1] # q[1] /\ p2[1] = p1[1] /\ p1[2] < p2[2]
              /\ task.conflicts[a1.id][b.id] > 0
              /\ task.conflicts[a2.id][b.id] > 0
              /\ a1.duration > 0 /\ a2.duration > 0 /\ b.duration > 0
              /\ b.start_time = a2.end_time
              /\ (q[2] > 1 =>
                     machines[q[1]][q[2] - 1].end_time < b.start_time)

(***************************************************************************)
(* Properties of the terms of the Hamiltonian.  A term is the set of the   *)
(* iterations of its innermost loop, each one the ordered pair of the two  *)
(* variables it multiplies; the product of two variables does not depend   *)
(* on their order.                                                         *)
(***************************************************************************)
\* How often the product of the variables x and y is added to a term.
CrossTermCount(terms, x, y) ==
    Cardinality({ o \in terms : {o[1], o[2]} = {x, y} })

WellFormed(t) ==
    /\ ~Malformed(t)
    /\ \A i \in DOMAIN t.lengths : \A j \in DOMAIN t.lengths :
          t.conflicts[i][j] \in {0, 1}

\* The discrete window of a variable.
WindowStart(var) == var[3]

WindowEnd(d, var) == var[3] + d.discrete_lengths[var[1] - 1]

\* The term B is built for a well-formed task.
BuiltB == pc \in {"C", "D", "compile", "returned"} /\ WellFormed(task)

\* Every cross term of B joins two variables of one machine, the first of
\* a transaction with a smaller identifier than the second.
SameMachineOnly(terms) ==
    \A o \in terms :
        /\ o[1][2] = o[2][2]
        /\ o[1][1] < o[2][1]
        /\ o[1] \in AllVariables(task, discretization)
        /\ o[2] \in AllVariables(task, discretization)

\* C12: B holds the product of (t, m, s) and (u, m, s'), t < u, exactly
\* once when the discrete windows [s, s + discrete_length[t]) and
\* [s', s' + discrete_length[u]) intersect and not at all when they do
\* not; no cross term of B joins two machines.
C12_PenalizesExactlyIntersections ==
    BuiltB =>
        /\ SameMachineOnly(hamiltonian.B)
        /\ \A x \in AllVariables(task, discretization) :
           \A y \in AllVariables(task, discretization) :
              (x[1] < y[1] /\ x[2] = y[2]) =>
                 CrossTermCount(hamiltonian.B, x, y) =
                    IF WindowsOverlap(WindowStart(x),
                                      WindowEnd(discretization, x),
                                      WindowStart(y),
                                      WindowEnd(discretization, y))
                    THEN 1 ELSE 0

\* C12, amended: B holds the product of (t, m, s) and (u, m, s'), t < u,
\* exactly once when s - discrete_length[u] < s' < s + discrete_length[t]
\* and not at all otherwise; for two positive discrete lengths these are
\* the starts whose windows intersect, and a transaction of discrete
\* length 0 is paired with the starts that put it strictly inside the
\* window of the other one.
C12_PenalizesStartsInReach ==
    BuiltB =>
        /\ SameMachineOnly(hamiltonian.B)
        /\ \A x \in AllVariables(task, discretization) :
           \A y \in AllVariables(task, discretization) :
              (x[1] < y[1] /\ x[2] = y[2]) =>
                 CrossTermCount(hamiltonian.B, x, y) =
                    IF /\ WindowStart(x) -
                              discretization.discrete_lengths[y[1] - 1] <
                          WindowStart(y)
                       /\ WindowStart(y) < WindowEnd(discretization, x)
                    THEN 1 ELSE 0

\* B of a task with two machines holds a cross term of a transaction of
\* discrete length 0 with a longer one, and leaves out a pair of starts of
\* one machine.
C12_Witness ==
    /\ BuiltB
    /\ task.num_machines >= 2
    /\ \E o \in hamiltonian.B :
          /\ discretization.discrete_lengths[o[1][1] - 1] = 0
          /\ discretization.discrete_lengths[o[2][1] - 1] >= 2
    /\ \E x \in AllVariables(task, discretization) :
       \E y \in AllVariables(task, discretization) :
          /\ x[1] < y[1] /\ x[2] = y[2]
          /\ CrossTermCount(hamiltonian.B, x, y) = 0

\* The term C is built for a well-formed task whose lengths are positive.
BuiltC ==
    /\ pc \in {"D", "compile", "returned"}
    /\ WellFormed(task)
    /\ \A i \in DOMAIN task.lengths : task.lengths[i] > 0

\* C13: C holds the product of (a, m, s) and (b, m', s') exactly once when
\* a and b are two different transactions with conflicts[a][b] true,
\* m # m' and the discrete windows overlap, and not at all otherwise: the
\* two entries of the symmetric matrix count once and the diagonal adds
\* no term.
C13_ConflictTermExactlyConflicts ==
    BuiltC =>
        \A x \in AllVariables(task, discretization) :
        \A y \in AllVariables(task, discretization) :
            CrossTermCount(hamiltonian.C, x, y) =
                IF /\ x[1] # y[1]
                   /\ task.conflicts[x[1] - 1][y[1] - 1] = 1
                   /\ x[2] # y[2]
                   /\ WindowsOverlap(WindowStart(x),
                                     WindowEnd(discretization, x),
                                     WindowStart(y),
                                     WindowEnd(discretization, y))
                THEN 1 ELSE 0

\* The quotient w2 / w1 of line 139 is below 1.  A division by 0 gives an
\* infinity with the sign of w2, or no number at all for 0 / 0.
WeightBelowOne(w) ==
    IF w.w1 = int64_zero THEN int64_negative(w.w2)
    ELSE IF int64_negative(w.w1) THEN int64_less(w.w1, w.w2)
    ELSE int64_less(w.w2, w.w1)

\* The value of a 64-bit integer that lies within its two lowest limbs.
int64_value(x) == x[1] + x[2] * LimbBase

\* The penalty A + B + C of the assignment that sets the variables of X to
\* 1 and the other ones to 0.
Penalty(h, X) ==
    SumOver([t_idx \in DOMAIN h.A |->
                (Cardinality(h.A[t_idx] \cap X) - 1) *
                (Cardinality(h.A[t_idx] \cap X) - 1)], DOMAIN h.A)
    + Cardinality({ o \in h.B : o[1] \in X /\ o[2] \in X })
    + Cardinality({ o \in h.C : o[1] \in X /\ o[2] \in X })

\* The total A + B + C + D of the assignment, multiplied by w1.
ScaledEnergy(h, X, w1) ==
    Penalty(h, X) * w1 +
    SumOver([var \in X |-> int64_value(h.D[var].w2)], X)

\* The weights are small enough for the total to be computed exactly, and
\* the variables few enough for every assignment to be tried.
Solvable ==
    /\ discretization.discrete_execution_length <= MaxExactHorizon
    /\ Cardinality(DOMAIN hamiltonian.D) <= MaxQubits

BuiltD == pc \in {"compile", "returned"} /\ WellFormed(task)

\* C14: every variable's weight w2 / w1 is strictly smaller than 1, and if
\* some assignment has penalty 0 then every assignment that minimizes
\* A + B + C + D has penalty 0.
C14_PreferenceNeverOverrides ==
    BuiltD =>
        /\ \A var \in DOMAIN hamiltonian.D :
              WeightBelowOne(hamiltonian.D[var])
        /\ Solvable =>
              LET Assignments == SUBSET (DOMAIN hamiltonian.D)
                  w1 == int64_value(int64_power(task.num_machines + 1,
                            discretization.discrete_execution_length))
                  energy == [X \in Assignments |->
                                ScaledEnergy(hamiltonian, X, w1)]
              IN  (\E X \in Assignments : Penalty(hamiltonian, X) = 0) =>
                      \A X \in Assignments :
                          (\A Y \in Assignments : energy[X] <= energy[Y])
                              => Penalty(hamiltonian, X) = 0

=============================================================================
